---- MODULE Spec2Model ----
(***************************************************************************)
(* dingdong (src/main.go): an HTTP responder that answers every request    *)
(* with 200 and accounts for traffic through a bounded body queue, a pool  *)
(* of workers, atomic counters and a lazily populated per-method map.      *)
(*                                                                         *)
(* Processes: the main goroutine (controller), the goroutine that runs     *)
(* ListenAndServe (listener), one goroutine per request (handler), the     *)
(* worker goroutines.  Every action below is one atomic step of one of     *)
(* them: a channel operation, an atomic Add/Load, or a critical section of *)
(* methodCountsMux.                                                        *)
(*                                                                         *)
(* fasthttp is a library, not part of src/.  Its behaviour as used here:   *)
(*  - the response is written to the connection after the handler returns *)
(*    (SetStatusCode only fills the response object);                      *)
(*  - Server.Shutdown returns nil at once when Serve has not yet           *)
(*    registered a listener; otherwise it closes the listener and waits    *)
(*    until no connection is being served; if closing the listener fails   *)
(*    it returns that error at once, without waiting;                      *)
(*  - a panic in a handler is not recovered: the process dies.             *)
(***************************************************************************)
EXTENDS Integers, Sequences, FiniteSets

\* ---- bounds of the model
MaxReq == 2          \* requests served in a run that has workers
MaxInFlight == 2     \* requests served at the same time
MaxWorkers == 2
MaxQueue == 2
MaxBody == 2

\* Without workers there is less to interleave, and the run serves one more
\* request: enough to overfill a queue of capacity MaxQueue.
Budget(nWorkers) == IF nWorkers = 0 THEN MaxReq + 1 ELSE MaxReq

Counters == 1..(MaxReq + 1)
Slots == 1..MaxInFlight
WorkerIds == 1..MaxWorkers
Methods == {"GET", "POST"}
StatusOK == 200

VARIABLES
    workers,        \* flag -w: number of worker goroutines
    queueSize,      \* flag -q: capacity of bodyQueue
    bodyQueue,      \* buffered channel: sequence of RequestBody
    closed,         \* bodyQueue has been closed
    totalRequests, totalBodySize, droppedBodies,   \* Metrics atomics
    methodCounts,   \* map method -> counter object (0: no entry)
    counterVal,     \* value of each counter object ever allocated
    nCounters,      \* number of counter objects allocated so far
    wg,             \* sync.WaitGroup counter
    wpc, held,      \* worker position, and the item it has received
    hpc,            \* per serving goroutine: handler position
    hmethod, hbody, \* its request: method, body length
    hstatus,        \* status code set on its response object
    hsent,          \* the response of its current request has been written
    hcounter,       \* local variable counter of incrementMethodCount
    arrived,        \* history: requests handed to requestHandler
    rxBytes,        \* history: sum of their body lengths
    nEmpty,         \* history: how many of them had an empty body
    rejected,       \* history: selects that took the default case
    rejBytes,       \* history: sum of the body lengths of those
    arrivedBy,      \* history: requests handed to requestHandler, per method
    enqCount,       \* history: items the select has put on bodyQueue
    enqBytes,       \* history: sum of their body lengths
    deqCount,       \* history: items the workers have received
    deqBytes,       \* history: sum of their body lengths
    lstate,         \* listener goroutine: "init", "listening", "closed"
    signalled,      \* a termination signal has been delivered
    ctl,            \* main goroutine position
    shutdownRes,    \* result of server.Shutdown(): "none", "nil", "err"
    crash,          \* "none", "fatal" (log.Fatalf), "panic"
    report          \* values loaded by displayMetrics

vars == <<workers, queueSize, bodyQueue, closed, totalRequests, totalBodySize,
          droppedBodies, methodCounts, counterVal, nCounters, wg, wpc, held, hpc,
          hmethod, hbody, hstatus, hsent, hcounter, arrived, rxBytes, nEmpty,
          rejected, rejBytes, arrivedBy, enqCount, enqBytes, deqCount, deqBytes,
          lstate, signalled, ctl, shutdownRes, crash, report>>

metricsVars == <<totalRequests, totalBodySize, droppedBodies, methodCounts, counterVal,
                 nCounters>>
deqVars == <<deqCount, deqBytes>>
workerVars == <<wg, wpc, held, deqVars>>
localVars == <<hpc, hmethod, hbody, hstatus, hsent, hcounter>>
enqVars == <<enqCount, enqBytes>>
histVars == <<arrived, rxBytes, nEmpty, rejected, rejBytes, arrivedBy, enqVars>>
handlerVars == <<localVars, histVars>>
mainVars == <<lstate, signalled, ctl, shutdownRes, crash, report>>
cfgVars == <<workers, queueSize>>

NoItem == [body |-> 0, method |-> ""]
NoReport == [totalReqs |-> -1, totalBodySize |-> -1, droppedBodies |-> -1,
             methods |-> [m \in Methods |-> -1]]

\* The process is running: main has not returned and nothing killed it.
Alive == ctl # "Terminated" /\ crash = "none"

\* A request is being served on goroutine s.
InFlight(s) == hpc[s] # "idle"

RECURSIVE SumOver(_, _)
SumOver(f, S) ==
    IF S = {} THEN 0
    ELSE LET x == CHOOSE y \in S : TRUE IN f[x] + SumOver(f, S \ {x})

\* ---- construction: init(), flags, make(chan), worker launch, signal.Notify,
\* ---- go ListenAndServe; main is about to block on sigChan.
Init ==
    /\ workers \in 0..MaxWorkers
    /\ queueSize \in 1..MaxQueue
    /\ bodyQueue = <<>>
    /\ closed = FALSE
    /\ totalRequests = 0 /\ totalBodySize = 0 /\ droppedBodies = 0
    /\ methodCounts = [m \in Methods |-> 0]
    /\ counterVal = [c \in Counters |-> 0]
    /\ wg = workers
    /\ wpc = [w \in WorkerIds |-> IF w <= workers THEN "recv" ELSE "off"]
    /\ held = [w \in WorkerIds |-> NoItem]
    /\ nCounters = 0
    /\ hpc = [s \in Slots |-> "idle"]
    /\ hmethod = [s \in Slots |-> ""]
    /\ hbody = [s \in Slots |-> 0]
    /\ hstatus = [s \in Slots |-> 0]
    /\ hsent = [s \in Slots |-> FALSE]
    /\ hcounter = [s \in Slots |-> 0]
    /\ arrived = 0 /\ rxBytes = 0 /\ nEmpty = 0 /\ rejected = 0 /\ rejBytes = 0
    /\ arrivedBy = [m \in Methods |-> 0]
    /\ enqCount = 0 /\ enqBytes = 0 /\ deqCount = 0 /\ deqBytes = 0
    /\ lstate = "init"
    /\ signalled = FALSE
    /\ ctl = "wait"
    /\ shutdownRes = "none"
    /\ crash = "none"
    /\ report = NoReport


\* ---- listener goroutine (main.go 89-95) and the HTTP engine

\* ListenAndServe binds and serves.
Bind ==
    /\ Alive /\ lstate = "init"
    /\ lstate' = "listening"
    /\ UNCHANGED <<cfgVars, bodyQueue, closed, metricsVars, workerVars, handlerVars,
                   signalled, ctl, shutdownRes, crash, report>>

\* Any error of ListenAndServe, also one after it has served, exits the process.
BindFailBad ==
    /\ Alive /\ lstate \in {"init", "listening"}
    /\ crash' = "fatal"
    /\ UNCHANGED <<cfgVars, bodyQueue, closed, metricsVars, workerVars, handlerVars,
                   lstate, signalled, ctl, shutdownRes, report>>

\* ListenAndServe returns an error: log.Fatalf exits the process.
BindFail ==
    /\ Alive /\ lstate = "init"
    /\ crash' = "fatal"
    /\ UNCHANGED <<cfgVars, bodyQueue, closed, metricsVars, workerVars, handlerVars,
                   lstate, signalled, ctl, shutdownRes, report>>

\* The engine reads a request on the first free serving goroutine and calls
\* requestHandler, which runs lines 116-141: the status code is set on the
\* response object, method and path are read, the dump goes to the console.
\* Nothing shared is written.
Arrive(s, m, b) ==
    /\ Alive /\ lstate = "listening"
    /\ hpc[s] = "idle"
    /\ \A t \in Slots : t < s => hpc[t] # "idle"
    /\ arrived < Budget(workers)
    /\ hpc' = [hpc EXCEPT ![s] = "push"]
    /\ hmethod' = [hmethod EXCEPT ![s] = m]
    /\ hbody' = [hbody EXCEPT ![s] = b]
    /\ hstatus' = [hstatus EXCEPT ![s] = StatusOK]
    /\ hsent' = [hsent EXCEPT ![s] = FALSE]
    /\ arrived' = arrived + 1
    /\ rxBytes' = rxBytes + b
    /\ nEmpty' = nEmpty + (IF b = 0 THEN 1 ELSE 0)
    /\ arrivedBy' = [arrivedBy EXCEPT ![m] = @ + 1]
    /\ UNCHANGED <<cfgVars, bodyQueue, closed, metricsVars, workerVars, hcounter,
                   rejected, rejBytes, enqVars, mainVars>>

\* ---- requestHandler

\* Line 145: only a non-empty body is copied and offered to the queue.
HasBodyBad(bodyLen) == TRUE
HasBody(bodyLen) == bodyLen > 0

\* The send case of the select is ready when the channel buffer has room.
CanSendBad(q, cap) == Len(q) < cap - 1
CanSend(q, cap) == Len(q) < cap

\* Lines 144-152: the select.  A send on a closed channel panics.
HandlerPush(s) ==
    /\ Alive /\ hpc[s] = "push"
    /\ IF ~HasBody(hbody[s])
       THEN /\ hpc' = [hpc EXCEPT ![s] = "count"]
            /\ UNCHANGED <<bodyQueue, rejected, rejBytes, enqVars, crash>>
       ELSE IF closed
       THEN /\ crash' = "panic"
            /\ UNCHANGED <<bodyQueue, hpc, rejected, rejBytes, enqVars>>
       ELSE IF CanSend(bodyQueue, queueSize)
       THEN /\ bodyQueue' = Append(bodyQueue, [body |-> hbody[s], method |-> hmethod[s]])
            /\ enqCount' = enqCount + 1
            /\ enqBytes' = enqBytes + hbody[s]
            /\ hpc' = [hpc EXCEPT ![s] = "count"]
            /\ UNCHANGED <<rejected, rejBytes, crash>>
       ELSE /\ rejected' = rejected + 1
            /\ rejBytes' = rejBytes + hbody[s]
            /\ hpc' = [hpc EXCEPT ![s] = "drop"]
            /\ UNCHANGED <<bodyQueue, enqVars, crash>>
    /\ UNCHANGED <<cfgVars, closed, metricsVars, workerVars, hmethod, hbody, hstatus,
                   hsent, hcounter, arrived, rxBytes, nEmpty, arrivedBy, lstate,
                   signalled, ctl, shutdownRes, report>>

\* Line 154: the default case.
HandlerDrop(s) ==
    /\ Alive /\ hpc[s] = "drop"
    /\ droppedBodies' = droppedBodies + 1
    /\ hpc' = [hpc EXCEPT ![s] = "count"]
    /\ UNCHANGED <<cfgVars, bodyQueue, closed, totalRequests, totalBodySize, methodCounts,
                   counterVal, nCounters, workerVars, hmethod, hbody, hstatus, hsent,
                   hcounter, histVars, mainVars>>

\* Line 159.
HandlerCount(s) ==
    /\ Alive /\ hpc[s] = "count"
    /\ totalRequests' = totalRequests + 1
    /\ hpc' = [hpc EXCEPT ![s] = "lookup"]
    /\ UNCHANGED <<cfgVars, bodyQueue, closed, totalBodySize, droppedBodies, methodCounts,
                   counterVal, nCounters, workerVars, hmethod, hbody, hstatus, hsent,
                   hcounter, histVars, mainVars>>

\* ---- incrementMethodCount

\* Lines 174-178: lookup under the read lock.
HandlerLookup(s) ==
    /\ Alive /\ hpc[s] = "lookup"
    /\ hcounter' = [hcounter EXCEPT ![s] = methodCounts[hmethod[s]]]
    /\ hpc' = [hpc EXCEPT ![s] = IF methodCounts[hmethod[s]] = 0 THEN "create" ELSE "add"]
    /\ UNCHANGED <<cfgVars, bodyQueue, closed, metricsVars, workerVars, hmethod, hbody,
                   hstatus, hsent, histVars, mainVars>>

\* Lines 179-185 without the second look: a new counter always replaces the entry.
HandlerCreateBad(s) ==
    /\ Alive /\ hpc[s] = "create"
    /\ nCounters' = nCounters + 1
    /\ methodCounts' = [methodCounts EXCEPT ![hmethod[s]] = nCounters + 1]
    /\ hcounter' = [hcounter EXCEPT ![s] = nCounters + 1]
    /\ hpc' = [hpc EXCEPT ![s] = "add"]
    /\ UNCHANGED <<cfgVars, bodyQueue, closed, totalRequests, totalBodySize, droppedBodies,
                   counterVal, workerVars, hmethod, hbody, hstatus, hsent, histVars,
                   mainVars>>

\* Lines 179-185: under the write lock, look again and allocate the counter if
\* the entry is still missing.
HandlerCreate(s) ==
    /\ Alive /\ hpc[s] = "create"
    /\ IF methodCounts[hmethod[s]] = 0
       THEN /\ nCounters' = nCounters + 1
            /\ methodCounts' = [methodCounts EXCEPT ![hmethod[s]] = nCounters + 1]
            /\ hcounter' = [hcounter EXCEPT ![s] = nCounters + 1]
       ELSE /\ hcounter' = [hcounter EXCEPT ![s] = methodCounts[hmethod[s]]]
            /\ UNCHANGED <<methodCounts, nCounters>>
    /\ hpc' = [hpc EXCEPT ![s] = "add"]
    /\ UNCHANGED <<cfgVars, bodyQueue, closed, totalRequests, totalBodySize, droppedBodies,
                   counterVal, workerVars, hmethod, hbody, hstatus, hsent, histVars,
                   mainVars>>

\* Line 188, then requestHandler returns.
HandlerAdd(s) ==
    /\ Alive /\ hpc[s] = "add"
    /\ counterVal' = [counterVal EXCEPT ![hcounter[s]] = @ + 1]
    /\ hpc' = [hpc EXCEPT ![s] = "ret"]
    /\ UNCHANGED <<cfgVars, bodyQueue, closed, totalRequests, totalBodySize, droppedBodies,
                   methodCounts, nCounters, workerVars, hmethod, hbody, hstatus, hsent,
                   hcounter, histVars, mainVars>>

\* The engine writes the response once the handler has returned; the goroutine
\* is free for the next request.
Respond(s) ==
    /\ Alive /\ hpc[s] = "ret"
    /\ hsent' = [hsent EXCEPT ![s] = TRUE]
    /\ hpc' = [hpc EXCEPT ![s] = "idle"]
    /\ hmethod' = [hmethod EXCEPT ![s] = ""]
    /\ hbody' = [hbody EXCEPT ![s] = 0]
    /\ hstatus' = [hstatus EXCEPT ![s] = 0]
    /\ hcounter' = [hcounter EXCEPT ![s] = 0]
    /\ UNCHANGED <<cfgVars, bodyQueue, closed, metricsVars, workerVars, histVars,
                   mainVars>>

\* ---- worker

\* Line 166: receive the next item.
WorkerRecvBad(w) ==
    /\ Alive /\ wpc[w] = "recv"
    /\ bodyQueue # <<>>
    /\ held' = [held EXCEPT ![w] = Head(bodyQueue)]
    /\ wpc' = [wpc EXCEPT ![w] = "add"]
    /\ deqCount' = deqCount + 1
    /\ deqBytes' = deqBytes + Head(bodyQueue).body
    /\ UNCHANGED <<cfgVars, bodyQueue, closed, metricsVars, wg, handlerVars, mainVars>>

\* Line 166: one item is received from the channel, which removes it.
WorkerRecv(w) ==
    /\ Alive /\ wpc[w] = "recv"
    /\ bodyQueue # <<>>
    /\ held' = [held EXCEPT ![w] = Head(bodyQueue)]
    /\ bodyQueue' = Tail(bodyQueue)
    /\ wpc' = [wpc EXCEPT ![w] = "add"]
    /\ deqCount' = deqCount + 1
    /\ deqBytes' = deqBytes + Head(bodyQueue).body
    /\ UNCHANGED <<cfgVars, closed, metricsVars, wg, handlerVars, mainVars>>

\* Counting items instead of bytes.
BodySizeBad(rb) == 1
\* Line 168: the size of an item is the length of its body.
BodySize(rb) == rb.body

\* A worker that also counts the item as a request.
WorkerAddBad(w) ==
    /\ Alive /\ wpc[w] = "add"
    /\ totalBodySize' = totalBodySize + BodySize(held[w])
    /\ totalRequests' = totalRequests + 1
    /\ held' = [held EXCEPT ![w] = NoItem]
    /\ wpc' = [wpc EXCEPT ![w] = "recv"]
    /\ UNCHANGED <<cfgVars, bodyQueue, closed, droppedBodies, methodCounts,
                   counterVal, nCounters, wg, deqVars, handlerVars, mainVars>>

\* Lines 168-169.
WorkerAdd(w) ==
    /\ Alive /\ wpc[w] = "add"
    /\ totalBodySize' = totalBodySize + BodySize(held[w])
    /\ held' = [held EXCEPT ![w] = NoItem]
    /\ wpc' = [wpc EXCEPT ![w] = "recv"]
    /\ UNCHANGED <<cfgVars, bodyQueue, closed, totalRequests, droppedBodies, methodCounts,
                   counterVal, nCounters, wg, deqVars, handlerVars, mainVars>>

\* The range loop ends as soon as the channel is closed, backlog or not.
RangeEndsBad(q, isClosed) == isClosed
\* The range loop ends when the channel is closed and empty.
RangeEnds(q, isClosed) == isClosed /\ q = <<>>

\* Lines 164, 166: loop exit and the deferred wg.Done().
WorkerExit(w) ==
    /\ Alive /\ wpc[w] = "recv"
    /\ RangeEnds(bodyQueue, closed)
    /\ wpc' = [wpc EXCEPT ![w] = "done"]
    /\ wg' = wg - 1
    /\ UNCHANGED <<cfgVars, bodyQueue, closed, metricsVars, held, deqVars, handlerVars,
                   mainVars>>


\* ---- main goroutine: shutdown sequence (main.go 97-112)

\* Line 98: the operating system delivers SIGINT or SIGTERM into sigChan and
\* the receive that main is blocked in returns.  Later signals are never read.
Signal ==
    /\ Alive /\ ctl = "wait"
    /\ signalled' = TRUE
    /\ ctl' = "shutdown"
    /\ UNCHANGED <<cfgVars, bodyQueue, closed, metricsVars, workerVars, handlerVars,
                   lstate, shutdownRes, crash, report>>

\* Line 102, Serve has not registered the listener yet: Shutdown returns nil
\* and stops nothing.
ShutdownNoListener ==
    /\ Alive /\ ctl = "shutdown" /\ lstate = "init"
    /\ shutdownRes' = "nil"
    /\ ctl' = "close"
    /\ UNCHANGED <<cfgVars, bodyQueue, closed, metricsVars, workerVars, handlerVars,
                   lstate, signalled, crash, report>>

\* Line 102: Shutdown closes the listener and starts waiting for the
\* connections that are being served.
ShutdownBegin ==
    /\ Alive /\ ctl = "shutdown" /\ lstate = "listening"
    /\ lstate' = "closed"
    /\ ctl' = "shutwait"
    /\ UNCHANGED <<cfgVars, bodyQueue, closed, metricsVars, workerVars, handlerVars,
                   signalled, shutdownRes, crash, report>>

\* Lines 102-104: closing the listener fails; Shutdown returns the error at
\* once, the error is logged and main goes on.  The server keeps serving.
ShutdownError ==
    /\ Alive /\ ctl = "shutdown" /\ lstate = "listening"
    /\ shutdownRes' = "err"
    /\ ctl' = "close"
    /\ UNCHANGED <<cfgVars, bodyQueue, closed, metricsVars, workerVars, handlerVars,
                   lstate, signalled, crash, report>>

\* Line 102: Shutdown returns nil once no request is being served.
ShutdownReturn ==
    /\ Alive /\ ctl = "shutwait"
    /\ \A s \in Slots : ~InFlight(s)
    /\ shutdownRes' = "nil"
    /\ ctl' = "close"
    /\ UNCHANGED <<cfgVars, bodyQueue, closed, metricsVars, workerVars, handlerVars,
                   lstate, signalled, crash, report>>

\* Line 107.
CloseQueue ==
    /\ Alive /\ ctl = "close"
    /\ closed' = TRUE
    /\ ctl' = "wgwait"
    /\ UNCHANGED <<cfgVars, bodyQueue, metricsVars, workerVars, handlerVars,
                   lstate, signalled, shutdownRes, crash, report>>

\* Line 108: wg.Wait() returns when the counter is zero.
WgWaitBad ==
    /\ Alive /\ ctl = "wgwait"
    /\ ctl' = "rdTotals"
    /\ UNCHANGED <<cfgVars, bodyQueue, closed, metricsVars, workerVars, handlerVars,
                   lstate, signalled, shutdownRes, crash, report>>

\* Line 108: wg.Wait() returns when every worker has called wg.Done().
WgWait ==
    /\ Alive /\ ctl = "wgwait"
    /\ wg = 0
    /\ ctl' = "rdTotals"
    /\ UNCHANGED <<cfgVars, bodyQueue, closed, metricsVars, workerVars, handlerVars,
                   lstate, signalled, shutdownRes, crash, report>>

\* ---- displayMetrics

\* Lines 192-215: the three counters are loaded and the totals printed.
DisplayTotals ==
    /\ Alive /\ ctl = "rdTotals"
    /\ report' = [report EXCEPT !.totalReqs = totalRequests,
                                !.totalBodySize = totalBodySize,
                                !.droppedBodies = droppedBodies]
    /\ ctl' = "rdMethods"
    /\ UNCHANGED <<cfgVars, bodyQueue, closed, metricsVars, workerVars, handlerVars,
                   lstate, signalled, shutdownRes, crash>>

\* Lines 216-226 and 112: under the read lock every entry of the map is loaded
\* and printed; then main returns and the process exits.
DisplayMethods ==
    /\ Alive /\ ctl = "rdMethods"
    /\ report' = [report EXCEPT !.methods =
                     [m \in Methods |-> IF methodCounts[m] = 0 THEN -1
                                        ELSE counterVal[methodCounts[m]]]]
    /\ ctl' = "Terminated"
    /\ UNCHANGED <<cfgVars, bodyQueue, closed, metricsVars, workerVars, handlerVars,
                   lstate, signalled, shutdownRes, crash>>

Next ==
    \/ Bind
    \/ BindFail
    \/ \E s \in Slots, m \in Methods, b \in 0..MaxBody : Arrive(s, m, b)
    \/ \E s \in Slots : HandlerPush(s)
    \/ \E s \in Slots : HandlerDrop(s)
    \/ \E s \in Slots : HandlerCount(s)
    \/ \E s \in Slots : HandlerLookup(s)
    \/ \E s \in Slots : HandlerCreate(s)
    \/ \E s \in Slots : HandlerAdd(s)
    \/ \E s \in Slots : Respond(s)
    \/ \E w \in WorkerIds : WorkerRecv(w)
    \/ \E w \in WorkerIds : WorkerAdd(w)
    \/ \E w \in WorkerIds : WorkerExit(w)
    \/ Signal
    \/ ShutdownNoListener
    \/ ShutdownBegin
    \/ ShutdownError
    \/ ShutdownReturn
    \/ CloseQueue
    \/ WgWait
    \/ DisplayTotals
    \/ DisplayMethods

Spec == Init /\ [][Next]_vars


\* ---- state functions used by the properties

\* No request is between the start of requestHandler and its response.
Quiescent == \A s \in Slots : hpc[s] = "idle"

\* The count the map holds for method m (0 when it has no entry).
MethodCount(m) == IF methodCounts[m] = 0 THEN 0 ELSE counterVal[methodCounts[m]]

\* Sum of the counters of the methods present in the map.
MethodSum == SumOver([m \in Methods |-> MethodCount(m)], Methods)

\* The queue is closed and empty and every worker has left its loop.
Drained ==
    /\ closed /\ bodyQueue = <<>>
    /\ \A w \in WorkerIds : wpc[w] \in {"off", "done"}

\* The handler on goroutine s has made its push attempt (or skipped it).
PastPush(s) == hpc[s] \in {"drop", "count", "lookup", "create", "add", "ret"}

Min(a, b) == IF a < b THEN a ELSE b
Max(a, b) == IF a > b THEN a ELSE b

\* ---- C1
\* C1: when every request had a non-empty body and no select took the default
\* case, then once all handlers are done and the closed queue has been drained by
\* the workers, totalRequests is the number of requests, totalBodySize the sum of
\* their body lengths and droppedBodies is 0.
C1_NoSaturationTotals ==
    (Quiescent /\ Drained /\ nEmpty = 0 /\ rejected = 0)
        => /\ totalRequests = arrived
           /\ totalBodySize = rxBytes
           /\ droppedBodies = 0

C1_Witness ==
    /\ Quiescent /\ Drained /\ nEmpty = 0 /\ rejected = 0
    /\ workers = 2 /\ arrived = 2 /\ rxBytes = 3 /\ totalBodySize = 3

\* ---- C2
\* C2: whenever no handler is in flight, totalRequests equals the sum of the
\* method counters in the map.
C2_TotalIsMethodSum == Quiescent => totalRequests = MethodSum

C2_Witness ==
    /\ Quiescent /\ totalRequests = 2
    /\ \A m \in Methods : MethodCount(m) = 1

\* ---- C3
\* C3 (as claimed): when main has printed the report and returned, after a
\* shutdown that stopped the listener and with every handler done, the reported
\* totalBodySize is the received bytes minus the bytes of the rejected bodies,
\* for every worker count.
C3_ReportedBytesExact ==
    (ctl = "Terminated" /\ lstate = "closed" /\ Quiescent)
        => report.totalBodySize = rxBytes - rejBytes

\* ---- C4
\* C4 (as claimed): in every state droppedBodies equals the number of selects
\* that took the default case.
C4_DroppedEqualsRejected == droppedBodies = rejected

\* The handlers that took the default case and have not yet run line 154.
PendingDrops == Cardinality({s \in Slots : hpc[s] = "drop"})

\* C4 (amended): droppedBodies lags the number of rejected selects by exactly the
\* handlers that stand between the select and the increment; a select takes the
\* default case only when the queue holds queueSize items, and it then leaves
\* the queue as it is.
C4_DroppedTracksRejected ==
    /\ [](droppedBodies = rejected - PendingDrops)
    /\ [][rejected' # rejected =>
            /\ rejected' = rejected + 1
            /\ Len(bodyQueue) = queueSize
            /\ bodyQueue' = bodyQueue]_vars

C4_Witness ==
    /\ rejected = 1 /\ droppedBodies = 1 /\ Len(bodyQueue) = queueSize
    /\ workers = 1 /\ Quiescent

\* ---- C5
\* C5 (as claimed): a handler that has started completes.  A finite run refutes
\* it when the process has ended while a handler is still in flight.
C5_HandlerCompletes == ~Alive => Quiescent

\* ---- C6
\* C6 (as claimed): a request's response has been sent by the time its push
\* attempt and its counter increments take place.
C6_ResponseBeforeMetrics == \A s \in Slots : PastPush(s) => hsent[s]

\* ---- C7
\* C7 (as claimed): after a termination signal the process reaches the report
\* and then exits.  A finite run refutes it when, after the signal, the process
\* has ended otherwise than by main returning (a listen failure aside).
C7_SignalLeadsToReport ==
    (signalled /\ ~Alive /\ crash # "fatal") => ctl = "Terminated"

\* ---- C8
\* C8: with no workers, once n requests with non-empty bodies are all done,
\* totalRequests = n, the queue holds min(n, queueSize) items, droppedBodies is
\* max(0, n - queueSize) and totalBodySize is 0.
C8_NoWorkersRetainAndDrop ==
    (workers = 0 /\ Quiescent /\ nEmpty = 0)
        => /\ totalRequests = arrived
           /\ Len(bodyQueue) = Min(arrived, queueSize)
           /\ droppedBodies = Max(0, arrived - queueSize)
           /\ totalBodySize = 0

C8_Witness ==
    /\ workers = 0 /\ queueSize = 2 /\ Quiescent /\ nEmpty = 0 /\ arrived = 3
    /\ totalRequests = 3 /\ Len(bodyQueue) = 2 /\ droppedBodies = 1

\* ---- C9
\* C9: every step of a handler whose request has an empty body leaves the queue,
\* totalBodySize and droppedBodies as they are; its select step goes straight to
\* the request counter, which it increments by 1, as it does its method's counter.
C9_EmptyBodyFrame ==
    [][\A s \in Slots :
          (hpc[s] # "idle" /\ hpc'[s] # hpc[s] /\ hbody[s] = 0) =>
             /\ bodyQueue' = bodyQueue
             /\ totalBodySize' = totalBodySize
             /\ droppedBodies' = droppedBodies
             /\ rejected' = rejected
             /\ hpc[s] = "push" => hpc'[s] = "count"
             /\ totalRequests' = totalRequests + (IF hpc[s] = "count" THEN 1 ELSE 0)
             /\ \A m \in Methods :
                   (IF methodCounts'[m] = 0 THEN 0 ELSE counterVal'[methodCounts'[m]])
                      = MethodCount(m)
                        + (IF m = hmethod[s] /\ hpc[s] = "add" THEN 1 ELSE 0)
      ]_vars

C9_Witness ==
    /\ Quiescent /\ arrived = 2 /\ nEmpty = 1 /\ Len(bodyQueue) = queueSize
    /\ totalRequests = 2 /\ droppedBodies = 0 /\ totalBodySize = 0

\* ---- C10
\* C10 (as claimed): when Shutdown returned an error the sequence still ends
\* with the report.  A finite run refutes it when the process has ended after
\* such an error otherwise than by main returning.
C10_ErrorStillReports == (shutdownRes = "err" /\ ~Alive) => ctl = "Terminated"


\* ---- C11
\* C11 (as claimed): when the listener failed to bind, no request was handled,
\* main is still waiting for a signal, the queue is open and nothing was reported.
C11_BindFailureFromStarting ==
    crash = "fatal" =>
        /\ arrived = 0
        /\ ctl = "wait" /\ ~closed /\ wg = workers /\ report = NoReport

\* C11 (amended): when the listener failed to bind, no request was ever handled
\* and the process takes no further step; and unless a termination signal had
\* been received before the failure, main is still waiting, the queue is open,
\* no worker has been awaited and nothing was reported.
C11_BindFailureStops ==
    /\ [](crash = "fatal" =>
            /\ arrived = 0 /\ Quiescent
            /\ ~signalled =>
                  (ctl = "wait" /\ ~closed /\ wg = workers /\ report = NoReport))
    /\ [][crash = "fatal" => UNCHANGED vars]_vars

C11_Witness == crash = "fatal" /\ ~signalled /\ workers = 2

\* ---- C12
\* C12 (as claimed): no handler sends on bodyQueue after main closed it.  Such a
\* send is the only panic of the program.
C12_NoPushAfterClose == crash # "panic"

\* ---- C13
\* C13 (as claimed): once displayMetrics has loaded the counters, no field of
\* Metrics changes any more.
C13_NoChangeWhileReporting ==
    [][ctl = "rdMethods" => UNCHANGED metricsVars]_vars


\* ---- C14
\* Handlers of method m that have not yet executed counter.Add(1) (line 188).
PendingFor(m) ==
    Cardinality({s \in Slots : hmethod[s] = m /\ hpc[s] \notin {"idle", "ret"}})

\* C14: for every method name at most one counter object is ever stored, a
\* stored counter is never replaced or removed, and no increment is lost: the
\* counter's value is the number of requests of that method whose increment has
\* completed, so it is N when N requests of the method have all completed.
C14_OneCounterNoLostIncrement ==
    /\ [](nCounters = Cardinality({m \in Methods : methodCounts[m] # 0}))
    /\ [](\A m \in Methods : MethodCount(m) = arrivedBy[m] - PendingFor(m))
    /\ [][\A m \in Methods :
            methodCounts[m] # 0 => methodCounts'[m] = methodCounts[m]]_vars

\* Two handlers of one new method both missed it in the shared lookup; one has
\* created the counter, the other is about to re-check under the write lock.
C14_Witness ==
    \E m \in Methods : \E s1, s2 \in Slots :
        /\ s1 # s2 /\ hmethod[s1] = m /\ hmethod[s2] = m
        /\ hpc[s1] = "create" /\ hpc[s2] = "add"
        /\ methodCounts[m] # 0 /\ hcounter[s2] = methodCounts[m]
        /\ counterVal[methodCounts[m]] = 0

\* ---- C15
\* C15: a worker exits only when the queue is closed and empty.
C15_ExitOnlyClosedAndEmpty ==
    [][\A w \in WorkerIds :
          (wpc[w] # "done" /\ wpc'[w] = "done") => (closed /\ bodyQueue = <<>>)]_vars

C15_Witness ==
    /\ workers = 2 /\ \A w \in WorkerIds : wpc[w] = "done"
    /\ deqCount = 2 /\ totalBodySize = 3

\* ---- C16
\* Position of main in its shutdown sequence (lines 98-112).
Phase(c) ==
    CASE c = "wait" -> 0
      [] c = "shutdown" -> 1
      [] c = "shutwait" -> 2
      [] c = "close" -> 3
      [] c = "wgwait" -> 4
      [] c = "rdTotals" -> 5
      [] c = "rdMethods" -> 6
      [] c = "Terminated" -> 7

\* displayMetrics has been called.
Reporting == Phase(ctl) >= 5

\* C16: with at least one worker, from the call of displayMetrics on the queue
\* is empty and every item ever enqueued has been received and counted.
C16_BacklogDrainedAtReport ==
    (workers >= 1 /\ Reporting) =>
        /\ bodyQueue = <<>>
        /\ deqCount = enqCount
        /\ totalBodySize = enqBytes

C16_Witness ==
    workers >= 1 /\ ctl = "rdTotals" /\ enqCount = 2 /\ enqBytes = 3

\* ---- C17
\* C17: main's steps happen in the order signal, Shutdown called and returned,
\* close(bodyQueue), all workers exited, report read, exit; nothing is skipped
\* or repeated and nothing starts without the signal.
C17_ShutdownOrder ==
    /\ [](ctl # "wait" => signalled)
    /\ [](shutdownRes # "none" <=> Phase(ctl) >= 3)
    /\ [](closed <=> Phase(ctl) >= 4)
    /\ [](Reporting => (wg = 0 /\ \A w \in WorkerIds : wpc[w] \in {"off", "done"}))
    /\ [](report # NoReport <=> Phase(ctl) >= 6)
    /\ [][ctl' # ctl =>
            \/ Phase(ctl') = Phase(ctl) + 1
            \/ ctl = "shutdown" /\ ctl' = "close"]_vars

C17_Witness ==
    ctl = "Terminated" /\ workers = 2 /\ arrived = 2 /\ shutdownRes = "nil"
    /\ lstate = "closed"

\* ---- C18
\* Bytes of the items received by workers that have not yet added them.
HeldBytes == SumOver([w \in WorkerIds |-> IF wpc[w] = "add" THEN held[w].body ELSE 0],
                     WorkerIds)

\* C18: every enqueued item is received at most once and by one worker, and its
\* length is added exactly once: totalBodySize is the sum of the lengths of the
\* items whose consumption has completed and never exceeds the enqueued bytes.
C18_AtMostOnceDelivery ==
    /\ [](enqCount = Len(bodyQueue) + deqCount)
    /\ [](enqBytes = deqBytes
                     + SumOver([i \in 1..Len(bodyQueue) |-> bodyQueue[i].body],
                               1..Len(bodyQueue)))
    /\ [](totalBodySize = deqBytes - HeldBytes /\ totalBodySize <= enqBytes)
    /\ [][deqCount' # deqCount =>
            /\ deqCount' = deqCount + 1
            /\ bodyQueue # <<>> /\ bodyQueue' = Tail(bodyQueue)
            /\ \E w \in WorkerIds :
                  /\ held'[w] = Head(bodyQueue)
                  /\ \A v \in WorkerIds \ {w} : held'[v] = held[v]]_vars

C18_Witness ==
    /\ wpc[1] = "add" /\ wpc[2] = "add"
    /\ held[1].body = 1 /\ held[2].body = 2
    /\ totalBodySize = 0 /\ enqBytes = 3

\* ---- C19
\* C19: worker steps leave totalRequests, droppedBodies and methodCounts alone,
\* handler steps leave totalBodySize alone, and totalBodySize changes only by a
\* worker adding the length of the item it received.
C19_WorkerHandlerFrames ==
    [][/\ wpc' # wpc =>
            UNCHANGED <<totalRequests, droppedBodies, methodCounts, counterVal, nCounters>>
       /\ (hpc' # hpc \/ crash' = "panic") => totalBodySize' = totalBodySize
       /\ totalBodySize' # totalBodySize =>
            \E w \in WorkerIds :
                /\ wpc[w] = "add" /\ wpc'[w] = "recv"
                /\ totalBodySize' = totalBodySize + held[w].body]_vars

C19_Witness ==
    /\ totalBodySize = 3 /\ totalRequests = 0 /\ droppedBodies = 0
    /\ \A m \in Methods : methodCounts[m] = 0

\* ---- C20
\* C20 (as claimed): whenever the report divides by the loaded totalRequests it
\* is positive, and the loaded droppedBodies does not exceed it.
C20_DivisorPositive ==
    report # NoReport =>
        /\ (report.totalBodySize > 0 \/ report.droppedBodies > 0) => report.totalReqs >= 1
        /\ report.droppedBodies <= report.totalReqs
        /\ (ctl = "Terminated" /\ \E m \in Methods : report.methods[m] # -1)
               => report.totalReqs >= 1

====
